---- MODULE Spec2Model ----
(***************************************************************************)
(* kip: Keep Internet Passwords (src/kip.py).                              *)
(*                                                                         *)
(* Strings are sequences of characters.  The storage directory HOME is the *)
(* function `files` from file names to file contents (sequences of bytes). *)
(* gpg and xclip are external programs: each call draws its outcome from   *)
(* {"ok", "fail", "unavailable"}.                                          *)
(*                                                                         *)
(*   Spec      one invocation of show or create per step, on one store     *)
(*   SpecCodec TEMPLATE.format followed by the parsing of show             *)
(*   SpecRace  two create invocations on one name, system call by system   *)
(*             call                                                        *)
(***************************************************************************)
EXTENDS Integers, Sequences, FiniteSets, TLC

VARIABLES
    files,      \* HOME: file name -> bytes
    op,         \* the last invocation: its arguments, output and exit
    rec,        \* SpecCodec: the record (password, username, notes)
    ser,        \* SpecCodec: TEMPLATE.format of rec
    parsed,     \* SpecCodec: what show parses out of ser
    cpc,        \* SpecCodec: position
    rname,      \* SpecRace: the name both invocations create
    rin,        \* SpecRace: each invocation's file_contents
    rpc,        \* SpecRace: each invocation's position in create
    renc,       \* SpecRace: each invocation's `enc`
    rbuf,       \* SpecRace: bytes held in enc_file's buffer
    rlast,      \* SpecRace: the invocations that wrote, last writer first
    rexit       \* SpecRace: each invocation's exit

vars == <<files, op, rec, ser, parsed, cpc, rname, rin, rpc, renc, rbuf, rlast, rexit>>

codecVars == <<rec, ser, parsed, cpc>>
raceVars == <<rname, rin, rpc, renc, rbuf, rlast, rexit>>

----------------------------------------------------------------------------
(* Bounds and input sets *)

MaxFiles == 2
MaxFieldLen == 2

PW_LEN == 19

NL == "\n"
SP == " "

\* names given to create
CreateNames == {<<"a">>, <<"a", "b">>, <<"b", "a">>, <<".", "a">>, <<".">>}
\* names given to show
Queries == CreateNames \cup {<<"b">>, <<"?">>}
Usernames == {<<"u">>, <<"v", NL, "w">>}
Notes == {<<>>, <<"n", NL, "m">>}
\* what a pipe on stdin delivers
Piped == {<<SP, "p", NL>>, <<"p", NL, "q">>}
\* the symbols random.choice is seen to draw
PwSample == {"x"}

Outcomes == {"ok", "fail", "unavailable"}

----------------------------------------------------------------------------
(* Strings *)

IsSpace(c) == c \in {SP, NL}

RECURSIVE lstrip(_)
lstrip(s) == IF s # <<>> /\ IsSpace(Head(s)) THEN lstrip(Tail(s)) ELSE s

RECURSIVE rstrip(_)
rstrip(s) ==
    IF s # <<>> /\ IsSpace(s[Len(s)]) THEN rstrip(SubSeq(s, 1, Len(s) - 1)) ELSE s

\* str.strip()
strip(s) == rstrip(lstrip(s))

\* str.split('\n')
RECURSIVE split(_)
split(s) ==
    IF \A i \in 1..Len(s) : s[i] # NL
    THEN <<s>>
    ELSE LET k == CHOOSE i \in 1..Len(s) :
                     s[i] = NL /\ \A j \in 1..(i - 1) : s[j] # NL
         IN  <<SubSeq(s, 1, k - 1)>> \o split(SubSeq(s, k + 1, Len(s)))

\* '\n'.join(parts)
RECURSIVE join(_)
join(parts) ==
    IF parts = <<>> THEN <<>>
    ELSE IF Len(parts) = 1 THEN parts[1]
    ELSE parts[1] \o <<NL>> \o join(Tail(parts))

\* mutant: the first two fields in the other order
TEMPLATE_swapped(password, username, notes) ==
    username \o <<NL>> \o password \o <<NL>> \o notes

TEMPLATE(password, username, notes) ==
    password \o <<NL>> \o username \o <<NL>> \o notes

bold(msg) == <<"\\033[1m">> \o msg \o <<"\\033[0m">>

\* pwgen(length): the passwords random.choice can produce, over PwSample
pwgen(length) == [1..length -> PwSample]

----------------------------------------------------------------------------
(* gpg *)

ENCRYPT_CMD == "encrypt"
DECRYPT_CMD == "decrypt"

\* The armored message gpg makes of s: opaque bytes, longer than s, each
\* belonging to this message at this offset.
Armor(s) == [i \in 1..(Len(s) + 1) |-> <<s, i>>]

\* b starts with a complete armored message
HasMessage(b) ==
    /\ b # <<>>
    /\ b[1][2] = 1
    /\ Len(b) >= Len(b[1][1]) + 1
    /\ SubSeq(b, 1, Len(b[1][1]) + 1) = Armor(b[1][1])

\* What gpg writes to stdout when it runs to the end.
Gpg(cmd, stdin) ==
    IF cmd = ENCRYPT_CMD THEN Armor(stdin)
    ELSE IF HasMessage(stdin) THEN stdin[1][1]
    ELSE <<>>

\* execute(cmd, stdin): Popen raises OSError when gpg cannot be started; a gpg
\* that fails leaves stdout empty, and its exit status is not looked at.
execute(cmd, stdin, outcome) ==
    [raised |-> outcome = "unavailable",
     stdout |-> IF outcome = "ok" THEN Gpg(cmd, stdin) ELSE <<>>]

encrypt(contents, outcome) == execute(ENCRYPT_CMD, contents, outcome)

decrypt(contents, outcome) == execute(DECRYPT_CMD, contents, outcome)

----------------------------------------------------------------------------
(* The storage directory *)

HOME == "~/.kip/"
CLIP_CMD == "xclip"

\* HOME + name is HOME itself, or its parent
IsDirName(name) == name \in {<<>>, <<".">>, <<".", ".">>}

\* mutant: the test of line 162 misses the files
exists_never(fs, name) == IsDirName(name)

\* os.path.exists(HOME + name)
exists(fs, name) == name \in DOMAIN fs \/ IsDirName(name)

\* open(path, 'wt'): O_CREAT | O_TRUNC, the offset at 0
truncate(fs, name) ==
    [f \in DOMAIN fs \cup {name} |-> IF f = name THEN <<>> ELSE fs[f]]

\* mutant: the file opened for append
pwrite_append(content, data) == content \o data

\* write(2) of data at offset 0 of a file that holds content
pwrite(content, data) ==
    data \o SubSeq(content, Len(data) + 1, Len(content))

\* fnmatch.fnmatch(n, p): '*' matches any run of characters, '?' any one
RECURSIVE fnmatch(_, _)
fnmatch(n, p) ==
    IF p = <<>> THEN n = <<>>
    ELSE IF Head(p) = "*"
         THEN fnmatch(n, Tail(p)) \/ (n # <<>> /\ fnmatch(Tail(n), p))
    ELSE /\ n # <<>>
         /\ Head(p) = "?" \/ Head(p) = Head(n)
         /\ fnmatch(Tail(n), Tail(p))

\* glob.glob(HOME + '*' + name + '*'): glob1 drops the names that start with
\* a dot when the pattern does not, and this pattern starts with '*'
glob(fs, name) ==
    {f \in DOMAIN fs : Head(f) # "." /\ fnmatch(f, <<"*">> \o name \o <<"*">>)}

\* the order os.listdir happens to give
RECURSIVE listing(_)
listing(S) ==
    IF S = {} THEN <<>>
    ELSE LET f == CHOOSE x \in S : TRUE IN <<f>> \o listing(S \ {f})

Line(stmt, text) == [stmt |-> stmt, text |-> text]

\* guess(name): the one file the glob finds, or the options and IOError
guess(fs, name) ==
    LET globs == glob(fs, name)
        opts == listing(globs)
    IN  IF Cardinality(globs) = 1
        THEN [raised |-> FALSE, res |-> opts[1], out |-> <<>>]
        ELSE [raised |-> TRUE, res |-> <<>>,
              out |-> <<Line("didyoumean", <<"Did you mean:">>)>>
                      \o [i \in 1..Len(opts) |->
                             Line("option", <<" - ">> \o opts[i])]]

\* mutant: OSError from Popen is not caught
copy_to_clipboard_uncaught(msg, outcome) ==
    [sent |-> IF outcome = "unavailable" THEN <<>> ELSE <<msg>>,
     out |-> <<>>,
     raised |-> outcome = "unavailable"]

\* copy_to_clipboard(msg): OSError from Popen is caught and reported; an
\* xclip that starts gets msg on its stdin whatever it then does
copy_to_clipboard(msg, outcome) ==
    IF outcome = "unavailable"
    THEN [sent |-> <<>>,
          out |-> <<Line("warning", <<CLIP_CMD, " -- ", "OSError">>),
                    Line("warning", <<"XLIP is propably not installed">>)>>,
          raised |-> FALSE]
    ELSE [sent |-> <<msg>>, out |-> <<>>, raised |-> FALSE]

\* mutant: the password is printed before the test of is_visible
output_password_always(is_visible, password, clip) ==
    IF is_visible
    THEN [out |-> <<Line("password", password)>>, calls |-> <<>>, sent |-> <<>>,
          clip |-> "n/a", raised |-> FALSE]
    ELSE LET c == copy_to_clipboard(password, clip)
         IN  [out |-> <<Line("password", password)>> \o c.out,
              calls |-> <<password>>, sent |-> c.sent,
              clip |-> clip, raised |-> c.raised]

\* show, lines 179-182: the password goes to stdout or to the clipboard
output_password(is_visible, password, clip) ==
    IF is_visible
    THEN [out |-> <<Line("password", password)>>, calls |-> <<>>, sent |-> <<>>,
          clip |-> "n/a", raised |-> FALSE]
    ELSE LET c == copy_to_clipboard(password, clip)
         IN  [out |-> c.out, calls |-> <<password>>, sent |-> c.sent,
              clip |-> clip, raised |-> c.raised]

\* show, lines 173-185: the fields show takes out of the decrypted contents;
\* parts[1] of a list of one element raises IndexError
parse(contents) ==
    LET parts == split(contents)
    IN  IF Len(parts) < 2
        THEN [raised |-> TRUE, password |-> <<>>, username |-> <<>>,
              hasNotes |-> FALSE, notes |-> <<>>]
        ELSE [raised |-> FALSE, password |-> parts[1], username |-> parts[2],
              hasNotes |-> Len(parts) > 2,
              notes |-> join(SubSeq(parts, 3, Len(parts)))]

\* an invocation of show that has not run
NoShow ==
    [ran |-> FALSE, name |-> <<>>, visible |-> FALSE,
     exact |-> FALSE, guessed |-> FALSE, opened |-> FALSE, filename |-> <<>>,
     decCalled |-> FALSE, decIn |-> <<>>, dec |-> "n/a", contents |-> <<>>,
     out |-> <<>>, clipCalls |-> <<>>, clipboard |-> <<>>, clip |-> "n/a",
     returned |-> FALSE, status |-> 0, crash |-> "none"]

\* show(name, is_visible), with the outcomes of the gpg and xclip it may start
show(fs, name, is_visible, dec, clip) ==
    LET s0 == [NoShow EXCEPT !.ran = TRUE, !.name = name, !.visible = is_visible,
                             !.exact = exists(fs, name)]
        g == IF s0.exact THEN [raised |-> FALSE, res |-> name, out |-> <<>>]
             ELSE guess(fs, name)
        notfound == Line("notfound", <<"File not found: ", HOME>> \o name)
    IN  IF g.raised \/ IsDirName(g.res)
        THEN \* IOError from guess or from open
             [s0 EXCEPT !.out = g.out \o <<notfound>>,
                        !.returned = TRUE, !.status = 1]
        ELSE
        LET s1 == [s0 EXCEPT
                     !.guessed = ~s0.exact, !.opened = TRUE, !.filename = g.res,
                     !.out = IF s0.exact THEN <<>>
                             ELSE <<Line("guessing", <<"Guessing ">> \o bold(g.res))>>,
                     !.decCalled = TRUE, !.decIn = fs[g.res], !.dec = dec]
            d == decrypt(fs[g.res], dec)
            r == parse(d.stdout)
        IN  IF d.raised THEN [s1 EXCEPT !.crash = "OSError"]
            ELSE IF r.raised
            THEN [s1 EXCEPT !.contents = d.stdout, !.crash = "IndexError"]
            ELSE
            LET c == output_password(is_visible, r.password, clip)
                s2 == [s1 EXCEPT
                         !.contents = d.stdout,
                         !.out = s1.out \o <<Line("username", bold(r.username))>>]
                s3 == [s2 EXCEPT !.out = s2.out \o c.out,
                                 !.clipCalls = c.calls,
                                 !.clipboard = c.sent,
                                 !.clip = c.clip]
            IN  IF c.raised THEN [s3 EXCEPT !.crash = "OSError"]
                ELSE [s3 EXCEPT
                        !.out = s3.out
                                \o (IF r.hasNotes
                                    THEN <<Line("notes", r.notes)>>
                                    ELSE <<>>),
                        !.returned = TRUE, !.status = 0]

----------------------------------------------------------------------------
(* Spec: one invocation per step *)

\* no invocation yet
NoOp ==
    [kind |-> "none", name |-> <<>>, username |-> <<>>, notes |-> <<>>,
     tty |-> FALSE, piped |-> <<>>, password |-> <<>>,
     enc |-> "n/a", wrote |-> FALSE, crash |-> "none",
     after |-> FALSE, sh |-> NoShow]

\* the invocation ran to a return statement
Completed(o) == o.crash = "none" /\ o.sh.crash = "none" /\ o.sh.returned

\* sys.exit(main()): the returned status, or 1 with a traceback
ExitCode(o) == IF Completed(o) THEN o.sh.status ELSE 1

\* create(name, username, notes) up to the chained show; password is what
\* stdin or pwgen gave
create(fs, o, encOutcome, dec, clip) ==
    LET file_contents == TEMPLATE(o.password, o.username, o.notes)
        e == encrypt(file_contents, encOutcome)
        fs1 == truncate(fs, o.name)
        fs2 == [fs1 EXCEPT ![o.name] = pwrite(@, e.stdout)]
    IN  IF e.raised
        THEN [fs |-> fs, op |-> [o EXCEPT !.enc = encOutcome, !.crash = "OSError"]]
        ELSE IF IsDirName(o.name)
        THEN \* open(HOME + name, 'wt') of a directory
             [fs |-> fs, op |-> [o EXCEPT !.enc = encOutcome, !.crash = "IOError"]]
        ELSE [fs |-> fs2,
              op |-> [o EXCEPT !.enc = encOutcome, !.wrote = TRUE,
                               !.sh = show(fs2, o.name, FALSE, dec, clip)]]

CodecOff == rec = <<>> /\ ser = <<>> /\ parsed = <<>> /\ cpc = "off"

RaceOff ==
    /\ rname = <<>> /\ rin = <<>> /\ rpc = <<>> /\ renc = <<>>
    /\ rbuf = <<>> /\ rlast = 0 /\ rexit = <<>>

\* HOME as main leaves it before the first invocation: made, and empty
Init ==
    /\ files = <<>>
    /\ op = NoOp
    /\ CodecOff
    /\ RaceOff

\* $ kip name [--print]; `after` and the fields beside it keep the arguments
\* of the create of the same name that completed just before, if one did
Show(name, is_visible, dec, clip) ==
    /\ LET after == op.kind = "create" /\ Completed(op) /\ op.name = name
           o == IF after THEN [op EXCEPT !.after = TRUE] ELSE NoOp
       IN  op' = [o EXCEPT !.kind = "show", !.name = name,
                           !.enc = "n/a", !.wrote = FALSE,
                           !.sh = show(files, name, is_visible, dec, clip)]
    /\ UNCHANGED files
    /\ UNCHANGED <<codecVars, raceVars>>

\* $ kip name username [notes], stdin a terminal or a pipe
Create(name, username, notes, tty, piped, generated, encOutcome, dec, clip) ==
    /\ name \in DOMAIN files \/ Cardinality(DOMAIN files) < MaxFiles
    /\ LET o == [NoOp EXCEPT !.kind = "create", !.name = name,
                             !.username = username, !.notes = notes,
                             !.tty = tty,
                             !.piped = IF tty THEN <<>> ELSE piped,
                             !.password = IF tty THEN generated ELSE strip(piped)]
           r == create(files, o, encOutcome, dec, clip)
       IN  /\ files' = r.fs
           /\ op' = r.op
    /\ UNCHANGED <<codecVars, raceVars>>

\* the outcomes of the programs one invocation starts; a program that is not
\* reached is not drawn
Env ==
    {e \in [enc : Outcomes, dec : Outcomes, clip : Outcomes] :
        /\ e.enc = "unavailable" => e.dec = "ok"
        /\ e.dec # "ok" => e.clip = "ok"}

ShowEnv(is_visible) ==
    {e \in Env : e.enc = "ok" /\ (is_visible => e.clip = "ok")}

\* stdin: a terminal, or a pipe and what it delivers
Stdin(pipes) ==
    {[tty |-> TRUE, piped |-> <<>>]} \cup {[tty |-> FALSE, piped |-> p] : p \in pipes}

\* Spec: every name, one record
Next ==
    \/ \E name \in Queries, is_visible \in BOOLEAN :
          \E e \in ShowEnv(is_visible) : Show(name, is_visible, e.dec, e.clip)
    \/ \E name \in CreateNames, in \in Stdin({<<SP, "p", NL>>}),
          generated \in pwgen(PW_LEN), e \in Env :
          Create(name, <<"u">>, <<"n">>, in.tty, in.piped, generated,
                 e.enc, e.dec, e.clip)

Spec == Init /\ [][Next]_vars

\* SpecRecords: every record, the names of RecordNames
RecordNames == {<<"a">>, <<".">>}

NextRecords ==
    \/ \E name \in RecordNames \cup {<<"?">>}, is_visible \in BOOLEAN :
          \E e \in ShowEnv(is_visible) : Show(name, is_visible, e.dec, e.clip)
    \/ \E name \in RecordNames, username \in Usernames, notes \in Notes,
          in \in Stdin(Piped), generated \in pwgen(PW_LEN), e \in Env :
          Create(name, username, notes, in.tty, in.piped, generated,
                 e.enc, e.dec, e.clip)

SpecRecords == Init /\ [][NextRecords]_vars

----------------------------------------------------------------------------
(* SpecCodec: the record format *)

RECURSIVE Strings(_)
Strings(n) ==
    IF n = 0 THEN {<<>>}
    ELSE LET S == Strings(n - 1)
         IN  S \cup {Append(t, c) : t \in {t \in S : Len(t) = n - 1}, c \in {"a", NL}}

Records ==
    [password : Strings(MaxFieldLen), username : Strings(MaxFieldLen),
     notes : Strings(MaxFieldLen)]

InitCodec ==
    /\ files = <<>>
    /\ op = NoOp
    /\ RaceOff
    /\ rec \in Records
    /\ ser = <<>>
    /\ parsed = parse(<<>>)
    /\ cpc = "record"

\* create, lines 113-116
Serialize ==
    /\ cpc = "record"
    /\ ser' = TEMPLATE(rec.password, rec.username, rec.notes)
    /\ cpc' = "serialized"
    /\ UNCHANGED <<files, op, rec, parsed, raceVars>>

\* show, lines 173-185
Deserialize ==
    /\ cpc = "serialized"
    /\ parsed' = parse(ser)
    /\ cpc' = "parsed"
    /\ UNCHANGED <<files, op, rec, ser, raceVars>>

NextCodec == Serialize \/ Deserialize

SpecCodec == InitCodec /\ [][NextCodec]_vars

----------------------------------------------------------------------------
(* SpecRace: two invocations of create on one name *)

Procs == {1, 2}

Other(p) == 3 - p

RaceName == <<"a">>
OtherName == <<"a", "b">>
OtherBytes == Armor(TEMPLATE(<<"o">>, <<"u">>, <<>>))
PriorBytes == Armor(TEMPLATE(<<"o">>, <<"u">>, <<"n", NL, "m">>))

\* the file_contents the two invocations build
RaceContents ==
    {TEMPLATE(<<"p">>, u, n) : u \in {<<"u">>, <<"v">>}, n \in Notes}

InitRace ==
    /\ op = NoOp
    /\ CodecOff
    /\ rname \in {[name |-> RaceName, had |-> h] : h \in BOOLEAN}
    /\ files = IF rname.had
               THEN [f \in {RaceName, OtherName} |->
                       IF f = RaceName THEN PriorBytes ELSE OtherBytes]
               ELSE [f \in {OtherName} |-> OtherBytes]
    /\ rin \in [Procs -> RaceContents]
    /\ rpc = [p \in Procs |-> "encrypt"]
    /\ renc = [p \in Procs |-> <<>>]
    /\ rbuf = [p \in Procs |-> <<>>]
    /\ rlast = 0
    /\ rexit = [p \in Procs |-> "running"]

\* line 117
REncrypt(p, outcome) ==
    /\ rpc[p] = "encrypt"
    /\ LET e == encrypt(rin[p], outcome)
       IN  IF e.raised
           THEN /\ rpc' = [rpc EXCEPT ![p] = "done"]
                /\ rexit' = [rexit EXCEPT ![p] = "OSError"]
                /\ UNCHANGED renc
           ELSE /\ rpc' = [rpc EXCEPT ![p] = "open"]
                /\ renc' = [renc EXCEPT ![p] = e.stdout]
                /\ UNCHANGED rexit
    /\ UNCHANGED <<files, op, codecVars, rname, rin, rbuf, rlast>>

\* line 119
ROpen(p) ==
    /\ rpc[p] = "open"
    /\ files' = truncate(files, rname.name)
    /\ rpc' = [rpc EXCEPT ![p] = "write"]
    /\ UNCHANGED <<op, codecVars, rname, rin, renc, rbuf, rlast, rexit>>

\* line 120: enc goes to the file's buffer, or past a full buffer to the file
RWrite(p, through) ==
    /\ rpc[p] = "write"
    /\ IF through
       THEN /\ files' = [files EXCEPT ![rname.name] = pwrite(@, renc[p])]
            /\ rlast' = p
            /\ UNCHANGED rbuf
       ELSE /\ rbuf' = [rbuf EXCEPT ![p] = renc[p]]
            /\ UNCHANGED <<files, rlast>>
    /\ rpc' = [rpc EXCEPT ![p] = IF through THEN "close" ELSE "flush"]
    /\ UNCHANGED <<op, codecVars, rname, rin, renc, rexit>>

\* line 121: close writes what the buffer holds
RClose(p) ==
    /\ rpc[p] \in {"close", "flush"}
    /\ IF rpc[p] = "flush"
       THEN /\ files' = [files EXCEPT ![rname.name] = pwrite(@, rbuf[p])]
            /\ rbuf' = [rbuf EXCEPT ![p] = <<>>]
            /\ rlast' = p
       ELSE UNCHANGED <<files, rbuf, rlast>>
    /\ rpc' = [rpc EXCEPT ![p] = "show"]
    /\ UNCHANGED <<op, codecVars, rname, rin, renc, rexit>>

\* line 125
RShow(p, dec, clip) ==
    /\ rpc[p] = "show"
    /\ LET r == show(files, rname.name, FALSE, dec, clip)
       IN  rexit' = [rexit EXCEPT ![p] =
                        IF r.crash # "none" THEN r.crash
                        ELSE IF r.status = 0 THEN "0" ELSE "1"]
    /\ rpc' = [rpc EXCEPT ![p] = "done"]
    /\ UNCHANGED <<files, op, codecVars, rname, rin, renc, rbuf, rlast>>

NextRace ==
    \E p \in Procs :
        \/ \E outcome \in Outcomes : REncrypt(p, outcome)
        \/ ROpen(p)
        \/ \E through \in BOOLEAN : RWrite(p, through)
        \/ RClose(p)
        \/ \E e \in ShowEnv(FALSE) : RShow(p, e.dec, e.clip)

SpecRace == InitRace /\ [][NextRace]_vars

----------------------------------------------------------------------------
(* Name resolution: C1, C2, C3, under Spec *)

\* name occurs in f as a substring
Contains(f, name) ==
    \E i \in 1..(Len(f) - Len(name) + 1) : SubSeq(f, i, i + Len(name) - 1) = name

Candidates(fs, name) == {f \in DOMAIN fs : Contains(f, name)}

Printed(sh, stmt) == {i \in 1..Len(sh.out) : sh.out[i].stmt = stmt}

\* the show reported a failure and delivered nothing
FailedShow(sh) ==
    /\ sh.returned /\ sh.status = 1 /\ sh.crash = "none"
    /\ ~sh.opened /\ ~sh.decCalled
    /\ Printed(sh, "password") = {} /\ sh.clipCalls = <<>>

\* C1: when a file named exactly X is in the storage directory, show(X) opens
\* that file and passes its bytes to decrypt, without calling guess and
\* without the 'Guessing' notice, whatever other names contain X.
C1_ExactResolution ==
    (op.sh.ran /\ op.sh.name \in DOMAIN files) =>
        /\ op.sh.exact /\ ~op.sh.guessed
        /\ op.sh.opened /\ op.sh.filename = op.sh.name
        /\ op.sh.decCalled /\ op.sh.decIn = files[op.sh.name]
        /\ Printed(op.sh, "guessing") = {}

\* C1 witness: show("a") with files a and ab present: a is read and decrypted
C1_Witness ==
    /\ op.kind = "show" /\ op.name = <<"a">>
    /\ DOMAIN files = {<<"a">>, <<"a", "b">>}
    /\ op.sh.opened /\ op.sh.filename = <<"a">> /\ ~op.sh.guessed
    /\ op.sh.returned /\ op.sh.status = 0

\* C2: when no file is named exactly `name`: with no file name containing
\* `name`, show reports 'File not found'; with more than one, show lists
\* every one of them and opens none; both return 1, decrypt nothing and
\* deliver no password.
C2_FailedResolution ==
    (op.sh.ran /\ op.sh.name \notin DOMAIN files) =>
        LET c == Candidates(files, op.sh.name)
        IN  /\ c = {} => (FailedShow(op.sh) /\ Printed(op.sh, "notfound") # {})
            /\ Cardinality(c) > 1 =>
                  /\ FailedShow(op.sh)
                  /\ \A f \in c : \E i \in Printed(op.sh, "option") :
                         op.sh.out[i].text = <<" - ">> \o f

\* C3: when no file is named exactly `name` and exactly one file name
\* contains `name`, show opens that file and prints 'Guessing' with its name;
\* the notice is printed exactly when guess was called and returned a file.
C3_Guess ==
    op.sh.ran =>
        /\ (op.sh.name \notin DOMAIN files
              /\ Cardinality(Candidates(files, op.sh.name)) = 1) =>
              \E f \in Candidates(files, op.sh.name) :
                  /\ op.sh.opened /\ op.sh.filename = f /\ op.sh.guessed
                  /\ \E i \in Printed(op.sh, "guessing") :
                         op.sh.out[i].text = <<"Guessing ">> \o bold(f)
        /\ Printed(op.sh, "guessing") # {} <=> (~op.sh.exact /\ op.sh.guessed)

----------------------------------------------------------------------------
(* Records: C4, C5, C6, C8, C9, under SpecRecords *)

OneLine(t) == \A i \in 1..Len(t) : t[i] # NL

\* the entry written by the create that op records decrypts to the record
StoredAsGiven(o) ==
    /\ o.name \in DOMAIN files
    /\ Gpg(DECRYPT_CMD, files[o.name])
         = strip(o.piped) \o <<NL>> \o o.username \o <<NL>> \o o.notes

\* the show that op records took the exact path and printed the username, the
\* password and the notes of the create before it, in that order
ShownAsGiven(o) ==
    /\ o.sh.exact /\ ~o.sh.guessed /\ o.sh.filename = o.name
    /\ o.sh.out = <<Line("username", bold(o.username)),
                    Line("password", strip(o.piped)),
                    Line("notes", o.notes)>>
    /\ o.sh.crash = "none" /\ o.sh.returned /\ o.sh.status = 0

PipedCreateDone == op.kind = "create" /\ ~op.tty /\ Completed(op)

\* a show(name, visible) right after a completed piped create of name, whose
\* gpg decrypted
ShowAfterPipedCreate ==
    /\ op.kind = "show" /\ op.after /\ ~op.tty
    /\ op.sh.visible /\ op.sh.dec = "ok"

\* C4 as stated: for every name, username, notes and piped p, a completed
\* create leaves an entry that decrypts to strip(p), username, notes joined by
\* newlines, and a show(name, visible) that follows prints username, strip(p)
\* and notes in that order and returns 0.
C4_CreateThenShow ==
    /\ PipedCreateDone => StoredAsGiven(op)
    /\ ShowAfterPipedCreate => ShownAsGiven(op)

\* C4 amended: the same, for a username and a strip(p) that hold no newline.
C4_CreateThenShowOneLine ==
    /\ PipedCreateDone => StoredAsGiven(op)
    /\ (ShowAfterPipedCreate /\ OneLine(op.username) /\ OneLine(strip(op.piped)))
          => ShownAsGiven(op)

\* C4 witness: create("a", "u", "n\nm") with " p\n" piped, then show("a", visible)
C4_Witness ==
    /\ ShowAfterPipedCreate
    /\ op.name = <<"a">> /\ op.piped = <<SP, "p", NL>> /\ op.username = <<"u">>
    /\ op.notes = <<"n", NL, "m">>
    /\ Printed(op.sh, "password") = {2}
    /\ op.sh.status = 0 /\ op.sh.returned

\* the show parsed a record and returned 0
ShowReturned0(sh) == sh.ran /\ sh.crash = "none" /\ sh.returned /\ sh.status = 0

\* C5: a show that parses a record prints the password (the first line of the
\* decrypted contents) and does not call the clipboard when visible; when not
\* visible it does not print the password and calls copy_to_clipboard once,
\* with exactly that password.
C5_VisibleFlag ==
    ShowReturned0(op.sh) =>
        LET password == split(op.sh.contents)[1]
        IN  IF op.sh.visible
            THEN /\ \E i \in Printed(op.sh, "password") :
                       op.sh.out[i].text = password
                 /\ op.sh.clipCalls = <<>> /\ op.sh.clipboard = <<>>
            ELSE /\ Printed(op.sh, "password") = {}
                 /\ op.sh.clipCalls = <<password>>

\* C5 witness: a show that is not visible hands the password "p" to xclip
C5_Witness ==
    /\ op.kind = "show" /\ ShowReturned0(op.sh) /\ ~op.sh.visible
    /\ op.sh.clipboard = << <<"p">> >>
    /\ Printed(op.sh, "username") # {}

\* C6: when the decrypted contents of the resolved file have fewer than two
\* lines (gpg's empty output included), show reports the malformed record and
\* returns 1: no uncaught exception, no username, no password, no clipboard.
C6_MalformedRecord ==
    (op.sh.ran /\ op.sh.dec \in {"ok", "fail"} /\ Len(split(op.sh.contents)) < 2) =>
        /\ op.sh.crash = "none"
        /\ op.sh.returned /\ op.sh.status = 1
        /\ Printed(op.sh, "username") = {} /\ Printed(op.sh, "password") = {}
        /\ op.sh.clipCalls = <<>>

\* C8: a create whose gpg cannot be started, or fails and leaves stdout empty,
\* exits non-zero before the write: the storage directory is as it was and no
\* show is chained.
C8_EncryptionFailureAborts ==
    [][(op' # op /\ op'.kind = "create" /\ op'.enc \in {"fail", "unavailable"}) =>
          /\ files' = files
          /\ ~op'.wrote /\ ~op'.sh.ran
          /\ ExitCode(op') # 0]_vars

\* C9: when a show that is not visible has parsed a record and xclip cannot be
\* started, the show prints a warning, still prints the username before it and
\* the notes (when there are any) after it, prints no password, and returns 0.
C9_ClipboardSoftFailure ==
    (op.sh.ran /\ ~op.sh.visible /\ op.sh.clip = "unavailable") =>
        LET r == parse(op.sh.contents)
            u == Printed(op.sh, "username")
            w == Printed(op.sh, "warning")
            n == Printed(op.sh, "notes")
        IN  /\ op.sh.crash = "none" /\ op.sh.returned /\ op.sh.status = 0
            /\ w # {} /\ op.sh.clipboard = <<>>
            /\ \E i \in u : /\ op.sh.out[i].text = bold(r.username)
                             /\ \A j \in w : i < j
            /\ r.notes # <<>> =>
                  \E i \in n : /\ op.sh.out[i].text = r.notes
                               /\ \A j \in w : j < i
            /\ Printed(op.sh, "password") = {}

\* C9 witness: show("a") without xclip, of a record with notes
C9_Witness ==
    /\ op.kind = "show" /\ ~op.sh.visible /\ op.sh.clip = "unavailable"
    /\ Printed(op.sh, "warning") # {} /\ Printed(op.sh, "notes") # {}
    /\ parse(op.sh.contents).notes = <<"n", NL, "m">>
    /\ op.sh.status = 0 /\ op.sh.returned

----------------------------------------------------------------------------
(* The record format: C7, under SpecCodec *)

\* a record of the data model: the password is not empty, and the password
\* and the username are one line each
LineRecord(r) ==
    r.password # <<>> /\ OneLine(r.password) /\ OneLine(r.username)

\* C7: what show parses out of what create serializes is the record itself
\* (password the first line, username the second, notes the rest joined by
\* newlines), with newlines in the notes and with empty notes; empty notes
\* are not printed.
C7_RoundTrip ==
    (cpc = "parsed" /\ LineRecord(rec)) =>
        /\ ~parsed.raised
        /\ parsed.password = rec.password
        /\ parsed.username = rec.username
        /\ parsed.notes = rec.notes
        /\ rec.notes = <<>> => ~parsed.hasNotes

----------------------------------------------------------------------------
(* Concurrent creates: C10, under SpecRace *)

RaceDone == \A p \in Procs : rpc[p] = "done"

Encrypted(p) == renc[p] = Armor(rin[p])

OthersUntouched ==
    /\ DOMAIN files \subseteq {RaceName, OtherName}
    /\ files[OtherName] = OtherBytes

====
